---- MODULE Spec2Model ----
(***************************************************************************)
(* ASTx Python transpiler (src/src/astx/transpilers/python.py).            *)
(*                                                                         *)
(* Text is a sequence of one-character strings, so that rendering is a     *)
(* real concatenation of characters and two different trees can collide.   *)
(* A node is a record with a "kind" field (its class) and the attributes   *)
(* the visit handlers read.                                                *)
(***************************************************************************)
EXTENDS Integers, Sequences, FiniteSets, TLC

\* ------------------------------------------------------------------ bounds
MaxStmts == 2    \* statements of a flat Block
MaxNest == 1     \* compound statements wrapped around an innermost body
MaxIndent == 2   \* render calls are made while indent_level is below this
MaxNames == 2    \* names of an import node
MaxOps == 2      \* BinaryOp nodes of an expression tree (SpecExpr)

\* ------------------------------------------------------------------- text
None == [kind |-> "None"]

indent_str == <<" ", " ", " ", " ">>

NL == <<"\n">>

RECURSIVE Repeat(_, _)
\* Python's  s * n  on strings.
Repeat(s, n) == IF n <= 0 THEN <<>> ELSE s \o Repeat(s, n - 1)

RECURSIVE Join(_, _)
\* Python's  sep.join(parts).
Join(sep, parts) ==
    IF parts = <<>> THEN <<>>
    ELSE IF Len(parts) = 1 THEN parts[1]
    ELSE parts[1] \o sep \o Join(sep, Tail(parts))

Digit(d) == <<"0", "1", "2", "3", "4", "5", "6", "7", "8", "9">>[d + 1]

RECURSIVE StrNat(_)
StrNat(n) == IF n < 10 THEN <<Digit(n)>> ELSE StrNat(n \div 10) \o <<Digit(n % 10)>>

\* Python's  str(n)  on an int.
Str(n) == IF n < 0 THEN <<"-">> \o StrNat(0 - n) ELSE StrNat(n)

\* ------------------------------------------------------------------ nodes
Variable(name) == [kind |-> "Variable", name |-> name]
BinaryOp(op, lhs, rhs) == [kind |-> "BinaryOp", op_code |-> op, lhs |-> lhs, rhs |-> rhs]
UnaryOp(op, operand) == [kind |-> "UnaryOp", op_code |-> op, operand |-> operand]
LiteralInt32(v) == [kind |-> "LiteralInt32", value |-> v]
LiteralBoolean(v) == [kind |-> "LiteralBoolean", value |-> v]
VariableAssignment(name, value) == [kind |-> "VariableAssignment", name |-> name, value |-> value]
FunctionReturn(value) == [kind |-> "FunctionReturn", value |-> value]
AliasExpr(name, asname) == [kind |-> "AliasExpr", name |-> name, asname |-> asname]
ImportStmt(names) == [kind |-> "ImportStmt", names |-> names]
ImportFromStmt(module, level, names) ==
    [kind |-> "ImportFromStmt", module |-> module, level |-> level, names |-> names]
ImportExpr(names) == [kind |-> "ImportExpr", names |-> names]
ImportFromExpr(module, level, names) ==
    [kind |-> "ImportFromExpr", module |-> module, level |-> level, names |-> names]
Int32 == [kind |-> "Int32"]
Argument(name, type_) == [kind |-> "Argument", name |-> name, type_ |-> type_]
Arguments(nodes) == [kind |-> "Arguments", nodes |-> nodes]
FunctionPrototype(name, args, return_type) ==
    [kind |-> "FunctionPrototype", name |-> name, args |-> args, return_type |-> return_type]
Function(prototype, body) ==
    [kind |-> "Function", name |-> prototype.name, prototype |-> prototype, body |-> body]
Block(nodes) == [kind |-> "Block", nodes |-> nodes]
\* Node classes the package exports for which the transpiler registers no handler.
LiteralString == [kind |-> "LiteralString"]
WhileStmt == [kind |-> "WhileStmt"]
Int64 == [kind |-> "Int64"]

\* The classes a  @dispatch  visit method is registered for.
Registered ==
    {"AliasExpr", "Argument", "Arguments", "BinaryOp", "Block", "ImportFromStmt",
     "ImportStmt", "ImportFromExpr", "ImportExpr", "Int32", "LiteralBoolean",
     "LiteralInt32", "Function", "FunctionReturn", "UnaryOp", "Variable",
     "VariableAssignment"}

\* ---------------------------------------------------------------- results
\* What a visit call leaves behind: the text it returns or the exception it
\* raises, the backend's indent_level afterwards, and the record of the
\* _generate_block calls made on the way (entry depth, statements, text).
Ok(text, level, log) == [ok |-> TRUE, text |-> text, level |-> level, err |-> None, log |-> log]
Raise(err, level, log) == [ok |-> FALSE, text |-> <<>>, level |-> level, err |-> err, log |-> log]

\* ------------------------------------------------------- string fragments
S_as == <<" ", "a", "s", " ">>
S_colon == <<":", " ">>
S_comma == <<",", " ">>
S_assign == <<" ", "=", " ">>
S_from == <<"f", "r", "o", "m", " ">>
S_import == <<"i", "m", "p", "o", "r", "t", " ">>
S_sp_import == <<" ">> \o S_import
S_dunder_import == <<"_", "_", "i", "m", "p", "o", "r", "t", "_", "_", "(", "'">>
S_getattr == <<"g", "e", "t", "a", "t", "t", "r", "(">>
S_fromlist == <<"'", ",", " ", "f", "r", "o", "m", "l", "i", "s", "t", "=", "[", "'">>
S_fromlist_end == <<"'", "]", ")", ",", " ", "'">>
S_quote_paren == <<"'", ")">>
S_name == <<"n", "a", "m", "e">>
S_module == <<"m", "o", "d", "u", "l", "e">>
S_int == <<"i", "n", "t">>
S_True == <<"T", "r", "u", "e">>
S_False == <<"F", "a", "l", "s", "e">>
S_def == <<"d", "e", "f", " ">>
S_arrow == <<" ", "-", ">", " ">>
S_return == <<"r", "e", "t", "u", "r", "n">>
S_pass == <<"p", "a", "s", "s">>

\* --------------------------------------------------------------- handlers
\* A silent fallback: an unhandled node renders as empty text.
VisitAST_Silent(expr, level) == Ok(<<>>, level, <<>>)

\* visit(astx.AST): no handler is registered for the node's class.
VisitAST(expr, level) == Raise(expr, level, <<>>)

\* visit(astx.AliasExpr)
FormatAliasExpr(node) ==
    IF node.asname # <<>> THEN node.name \o S_as \o node.asname ELSE node.name

\* visit(astx.Argument):  f"{node.name}: {type_}"
FormatArgument(name, type_) == name \o S_colon \o type_

\* Infix without the enclosing parentheses.
FormatBinaryOp_Bare(lhs, op_code, rhs) == lhs \o <<" ">> \o op_code \o <<" ">> \o rhs

\* visit(astx.BinaryOp):  f"({lhs} {node.op_code} {rhs})"
FormatBinaryOp(lhs, op_code, rhs) ==
    <<"(">> \o lhs \o <<" ">> \o op_code \o <<" ">> \o rhs \o <<")">>

\* visit(astx.UnaryOp):  f"({node.op_code}{operand})"
FormatUnaryOp(op_code, operand) == <<"(">> \o op_code \o operand \o <<")">>

\* level_dots and module_str of the from-imports.
ModuleStr(node) ==
    IF node.module # <<>> THEN Repeat(<<".">>, node.level) \o node.module
    ELSE Repeat(<<".">>, node.level)

\* visit(astx.ImportFromStmt)
FormatImportFromStmt(node, names) ==
    S_from \o ModuleStr(node) \o S_sp_import \o Join(S_comma, names)

\* visit(astx.ImportStmt)
FormatImportStmt(names) == S_import \o Join(S_comma, names)

\* The lookup call of one name of an ImportFromExpr.
LookupFrom(module_str, name) ==
    S_getattr \o S_dunder_import \o module_str \o S_fromlist \o name
        \o S_fromlist_end \o name \o S_quote_paren

\* The lookup call of one module of an ImportExpr (the code's literal ends in a space).
LookupModule(name) == S_dunder_import \o name \o S_quote_paren \o <<" ">>

\* num:  "" if one name, else "1", "2", ...
Num(n) == [i \in 1..n |-> IF n = 1 THEN <<>> ELSE Str(i)]

\* call_str: the synthetic bindings, joined.
CallStr(base, n) == Join(S_comma, [i \in 1..n |-> base \o Num(n)[i]])

\* The tuple parentheses also around a single lookup.
TupleAlways(names_list, names_str) == <<"(">> \o names_str \o <<")">>

\* names_str if len(names_list) == 1 else "(" + names_str + ")"
TupleIfMultiple(names_list, names_str) ==
    IF Len(names_list) = 1 THEN names_str ELSE <<"(">> \o names_str \o <<")">>

\* visit(astx.ImportFromExpr), from the rendered names on.
FormatImportFromExpr(node, names) ==
    LET names_list == [i \in 1..Len(names) |-> LookupFrom(ModuleStr(node), names[i])]
    IN  CallStr(S_name, Len(names)) \o S_assign
            \o TupleIfMultiple(names_list, Join(S_comma, names_list))

\* visit(astx.ImportExpr), from the rendered names on.
FormatImportExpr(names) ==
    LET names_list == [i \in 1..Len(names) |-> LookupModule(names[i])]
    IN  CallStr(S_module, Len(names)) \o S_assign
            \o TupleIfMultiple(names_list, Join(S_comma, names_list))

\* visit(astx.LiteralBoolean)
FormatLiteralBoolean(node) == IF node.value THEN S_True ELSE S_False

\* visit(astx.Function):  header, newline, body.
FormatFunction(name, args, returns, body) ==
    S_def \o name \o <<"(">> \o args \o <<")">> \o returns \o <<":">> \o NL \o body

\* visit(astx.FunctionReturn):  f"return {value}"
FormatFunctionReturn(value) == S_return \o <<" ">> \o value

\* visit(astx.VariableAssignment):  f"{target} = {value}"
FormatVariableAssignment(target, value) == target \o S_assign \o value

\* The nodes a handler calls self.visit on, in the order it calls them.
Children(node) ==
    CASE node.kind = "Argument" -> <<node.type_>>
      [] node.kind = "Arguments" -> node.nodes
      [] node.kind = "BinaryOp" -> <<node.lhs, node.rhs>>
      [] node.kind \in {"ImportFromStmt", "ImportStmt", "ImportFromExpr", "ImportExpr"} ->
            node.names
      [] node.kind = "Function" ->
            <<node.prototype.args>>
                \o (IF node.prototype.return_type # None
                    THEN <<node.prototype.return_type>> ELSE <<>>)
                \o <<node.body>>
      [] node.kind = "FunctionReturn" -> IF node.value # None THEN <<node.value>> ELSE <<>>
      [] node.kind = "UnaryOp" -> <<node.operand>>
      [] node.kind = "VariableAssignment" -> <<node.value>>
      [] OTHER -> <<>>

\* The text a handler returns, given the texts its visit calls returned.
Format(node, t) ==
    CASE node.kind = "AliasExpr" -> FormatAliasExpr(node)
      [] node.kind = "Argument" -> FormatArgument(node.name, t[1])
      [] node.kind = "Arguments" -> Join(S_comma, t)
      [] node.kind = "BinaryOp" -> FormatBinaryOp(t[1], node.op_code, t[2])
      [] node.kind = "ImportFromStmt" -> FormatImportFromStmt(node, t)
      [] node.kind = "ImportStmt" -> FormatImportStmt(t)
      [] node.kind = "ImportFromExpr" -> FormatImportFromExpr(node, t)
      [] node.kind = "ImportExpr" -> FormatImportExpr(t)
      [] node.kind = "Int32" -> S_int
      [] node.kind = "LiteralBoolean" -> FormatLiteralBoolean(node)
      [] node.kind = "LiteralInt32" -> Str(node.value)
      [] node.kind = "Function" ->
            FormatFunction(node.name, t[1],
                           IF Len(t) = 3 THEN S_arrow \o t[2] ELSE <<>>, t[Len(t)])
      [] node.kind = "FunctionReturn" ->
            FormatFunctionReturn(IF t = <<>> THEN <<>> ELSE t[1])
      [] node.kind = "UnaryOp" -> FormatUnaryOp(node.op_code, t[1])
      [] node.kind = "Variable" -> node.name
      [] node.kind = "VariableAssignment" -> FormatVariableAssignment(node.name, t[1])

\* The join alone: an empty block gives empty text.
BlockResult_NoPass(lines, level) == Join(NL, lines)

\* "\n".join(lines) if lines else self.indent_str * self.indent_level + "pass"
BlockResult(lines, level) ==
    IF lines # <<>> THEN Join(NL, lines) ELSE Repeat(indent_str, level) \o S_pass

\* self.indent_level -= 1, the last statement of _generate_block.
Unindent(level) == level - 1

RECURSIVE Visit(_, _), VisitAll(_, _)

\* The visit calls of one handler, left to right; an exception ends them.
VisitAll(nodes, level) ==
    IF nodes = <<>>
    THEN [ok |-> TRUE, texts |-> <<>>, level |-> level, err |-> None, log |-> <<>>]
    ELSE LET h == Visit(Head(nodes), level)
         IN  IF ~h.ok
             THEN [ok |-> FALSE, texts |-> <<>>, level |-> h.level, err |-> h.err,
                   log |-> h.log]
             ELSE LET r == VisitAll(Tail(nodes), h.level)
                  IN  [ok |-> r.ok,
                       texts |-> IF r.ok THEN <<h.text>> \o r.texts ELSE <<>>,
                       level |-> r.level, err |-> r.err, log |-> h.log \o r.log]

\* _generate_block: enter one level, render the statements, leave the level.
generate_block(block, level) ==
    LET entered == level + 1
        indent == Repeat(indent_str, entered)
        vs == VisitAll(block.nodes, entered)
        lines == [i \in 1..Len(vs.texts) |-> indent \o vs.texts[i]]
        result == BlockResult(lines, vs.level)
    IN  IF ~vs.ok
        THEN Raise(vs.err, vs.level,
                   vs.log \o <<[entry |-> level, n |-> Len(block.nodes), ok |-> FALSE,
                                text |-> <<>>, exit |-> vs.level]>>)
        ELSE Ok(result, Unindent(vs.level),
                vs.log \o <<[entry |-> level, n |-> Len(block.nodes), ok |-> TRUE,
                             text |-> result, exit |-> Unindent(vs.level)]>>)

\* self.visit(node) with the backend at depth level: dispatch on the node's class.
Visit(node, level) ==
    IF node.kind \notin Registered THEN VisitAST(node, level)
    ELSE IF node.kind = "Block" THEN generate_block(node, level)
    ELSE LET vs == VisitAll(Children(node), level)
         IN  IF ~vs.ok THEN Raise(vs.err, vs.level, vs.log)
             ELSE Ok(Format(node, vs.texts), vs.level, vs.log)

\* ------------------------------------------------------------ input trees
Na == <<"a">>
Nb == <<"b">>
Nc == <<"c">>
Nf == <<"f">>
Nos == <<"o", "s">>
Npkg == <<"p", "k", "g">>
Plus == <<"+">>
Times == <<"*">>
Minus == <<"-">>

\* Sequences over S of length lo..hi.
SeqsOf(S, lo, hi) == UNION {[1..n -> S] : n \in lo..hi}

\* Statements of the innermost bodies: one the backend renders, one it does not.
Stmt0 == {VariableAssignment(Na, LiteralInt32(42)), WhileStmt}

Flat == SeqsOf(Stmt0, 0, MaxStmts)

P0 == FunctionPrototype(Nf, Arguments(<<>>), None)

RECURSIVE Nested(_)
\* Compound statements: a Function or a Block over a flat body, wrapped k times
\* in a Function body (after a return) or in a Block.
Nested(k) ==
    IF k = 0 THEN {Function(P0, Block(s)) : s \in Flat} \cup {Block(s) : s \in Flat}
    ELSE {Function(P0, Block(<<FunctionReturn(None), x>>)) : x \in Nested(k - 1)}
            \cup {Block(<<x>>) : x \in Nested(k - 1)}

Compound == UNION {Nested(k) : k \in 0..MaxNest}

Aliases == {AliasExpr(Na, <<>>), AliasExpr(Nb, Nc)}

AliasSeqs == SeqsOf(Aliases, 1, MaxNames)

Imports ==
    {ImportStmt(n) : n \in AliasSeqs} \cup {ImportExpr(n) : n \in AliasSeqs}
        \cup {ImportFromStmt(Npkg, 1, n) : n \in AliasSeqs}
        \cup {ImportFromStmt(<<>>, 2, n) : n \in AliasSeqs}
        \cup {ImportFromExpr(Nos, 0, n) : n \in AliasSeqs}
        \cup {ImportExpr(<<AliasExpr(Na, <<>>), LiteralString>>)}

TwoArgs == Arguments(<<Argument(Na, Int32), Argument(Nb, Int32)>>)

Simple ==
    {FunctionReturn(None), FunctionReturn(Variable(Na)), FunctionReturn(LiteralString),
     VariableAssignment(Na, BinaryOp(Plus, Variable(Na),
                                    BinaryOp(Times, Variable(Nb), Variable(Nc)))),
     VariableAssignment(Na, LiteralString),
     UnaryOp(Minus, Variable(Na)), UnaryOp(Minus, LiteralString),
     BinaryOp(Plus, LiteralString, Variable(Na)),
     LiteralBoolean(TRUE), LiteralBoolean(FALSE), LiteralInt32(42), LiteralInt32(-7),
     Function(FunctionPrototype(Nf, TwoArgs, Int32),
              Block(<<FunctionReturn(Variable(Na))>>)),
     Function(FunctionPrototype(Nf, Arguments(<<Argument(Na, Int64)>>), None), Block(<<>>)),
     Function(FunctionPrototype(Nf, Arguments(<<>>), Int64), Block(<<>>))}

Trees == Compound \cup Imports \cup Simple

\* Expression trees of exactly n BinaryOp nodes over the variables a, b, c.
RECURSIVE BinTrees(_)
BinTrees(n) ==
    IF n = 0 THEN {Variable(x) : x \in {Na, Nb, Nc}}
    ELSE UNION {{BinaryOp(op, l, r) : op \in {Plus, Times}, l \in BinTrees(i),
                                      r \in BinTrees(n - 1 - i)} : i \in 0..(n - 1)}

Exprs == UNION {BinTrees(n) : n \in 0..MaxOps}

\* ------------------------------------------------------------------ state
Backends == {1, 2}     \* the transpiler instances
Threads == {1, 2}      \* the callers of SpecConc

VARIABLES
    indent_level,   \* self.indent_level of every backend instance
    node,           \* the root of the last render call on backend 1
    outcome,        \* what that call gave: text or exception, and its block record
    pre_level,      \* backend 1's indent_level when that call was made
    self,           \* SpecConc: the backend instance each thread renders on
    tree,           \* SpecConc: the root each thread renders
    stack,          \* SpecConc: each thread's _generate_block activations
    ret             \* SpecConc: what each thread's render call returned

seq_vars == <<node, outcome, pre_level>>
conc_vars == <<self, tree, stack, ret>>
vars == <<indent_level, node, outcome, pre_level, self, tree, stack, ret>>

NotRun == [status |-> "none", text |-> <<>>, err |-> None, log |-> <<>>]

Outcome(r) ==
    [status |-> IF r.ok THEN "ok" ELSE "error", text |-> r.text, err |-> r.err,
     log |-> r.log]

NotReturned == [done |-> FALSE, text |-> <<>>]

\* The depth kept in one place for every instance (a class or module variable).
LevelCell_Shared(b) == 1

\* __init__: self.indent_level = 0 makes the depth an attribute of the
\* instance; LevelCell(b) is where instance b's depth is kept.
LevelCell(b) == b

Level(b) == indent_level[LevelCell(b)]

SetLevel(b, v) == indent_level' = [indent_level EXCEPT ![LevelCell(b)] = v]

NoThreads ==
    /\ self = [t \in Threads |-> 1]
    /\ tree = [t \in Threads |-> None]
    /\ stack = [t \in Threads |-> <<>>]
    /\ ret = [t \in Threads |-> NotReturned]

\* ASTxPythonTranspiler(): backends as constructed, nothing rendered yet.
Init ==
    /\ indent_level = [b \in Backends |-> 0]
    /\ node = None
    /\ outcome = NotRun
    /\ pre_level = 0
    /\ NoThreads

\* transpiler.visit(root) on backend 1, start to end.
RenderCall(root) ==
    LET r == Visit(root, Level(1))
    IN  /\ node' = root
        /\ pre_level' = Level(1)
        /\ SetLevel(1, r.level)
        /\ outcome' = Outcome(r)
        /\ UNCHANGED conc_vars

Render == \E root \in Trees : Level(1) < MaxIndent /\ RenderCall(root)

Next == Render

\* One backend, any sequence of render calls.
Spec == Init /\ [][Next]_vars

\* SpecExpr: an expression tree is drawn and rendered once on a new backend.
InitExpr ==
    /\ indent_level = [b \in Backends |-> 0]
    /\ node \in Exprs
    /\ outcome = NotRun
    /\ pre_level = 0
    /\ NoThreads

RenderExpr == outcome = NotRun /\ RenderCall(node)

NextExpr == RenderExpr

SpecExpr == InitExpr /\ [][NextExpr]_vars

\* ------------------------------------------------- reading a rendered text
RECURSIVE SplitLines(_, _)
\* text.split("\n"), with cur the line being read.
SplitLines(text, cur) ==
    IF text = <<>> THEN <<cur>>
    ELSE IF Head(text) = "\n" THEN <<cur>> \o SplitLines(Tail(text), <<>>)
    ELSE SplitLines(Tail(text), Append(cur, Head(text)))

Lines(text) == SplitLines(text, <<>>)

RECURSIVE LeadingSpaces(_)
LeadingSpaces(line) ==
    IF line # <<>> /\ Head(line) = " " THEN 1 + LeadingSpaces(Tail(line)) ELSE 0

\* The depth a line is printed at: its leading blanks in indentation units,
\* or -1 when they are no whole number of units.
LineDepth(line) ==
    IF LeadingSpaces(line) % Len(indent_str) = 0
    THEN LeadingSpaces(line) \div Len(indent_str) ELSE 0 - 1

LineDepths(text) == [i \in 1..Len(Lines(text)) |-> LineDepth(Lines(text)[i])]

RECURSIVE ExpectedDepths(_, _), ExpectedDepthsAll(_, _)
\* The depth of every line of a statement that stands at depth d: a Function's
\* header at d, the statements of a Block (or the pass of an empty one) one deeper.
ExpectedDepths(stmt, d) ==
    IF stmt.kind = "Function" THEN <<d>> \o ExpectedDepths(stmt.body, d)
    ELSE IF stmt.kind = "Block"
    THEN IF stmt.nodes = <<>> THEN <<d + 1>> ELSE ExpectedDepthsAll(stmt.nodes, d + 1)
    ELSE <<d>>

ExpectedDepthsAll(stmts, d) ==
    IF stmts = <<>> THEN <<>>
    ELSE ExpectedDepths(Head(stmts), d) \o ExpectedDepthsAll(Tail(stmts), d)

\* Every node of a tree: the node and everything its attributes hold.
RECURSIVE AllNodes(_)
Parts(n) ==
    CASE n.kind = "Function" -> <<n.prototype, n.body>>
      [] n.kind = "FunctionPrototype" ->
            <<n.args>> \o (IF n.return_type # None THEN <<n.return_type>> ELSE <<>>)
      [] n.kind = "Block" -> n.nodes
      [] OTHER -> Children(n)

AllNodes(n) == {n} \cup UNION {AllNodes(Parts(n)[i]) : i \in 1..Len(Parts(n))}

\* The nodes a render of the tree can call visit on.
RECURSIVE DispatchedNodes(_)
Dispatched(n) == IF n.kind = "Block" THEN n.nodes ELSE Children(n)

DispatchedNodes(n) ==
    {n} \cup UNION {DispatchedNodes(Dispatched(n)[i]) : i \in 1..Len(Dispatched(n))}

Unregistered(S) == {n \in S : n.kind \notin Registered}

Rendered == node # None

Succeeded == outcome.status = "ok"

Failed == outcome.status = "error"

\* What the concurrent render calls are given: the first a Function every node
\* of which has a handler, the second such a Function over a flat body.
ConcTrees ==
    {t \in Compound : t.kind = "Function" /\ \A n \in DispatchedNodes(t) : n.kind \in Registered}

ConcFlatTrees == ConcTrees \cap Nested(0)

\* ------------------------------------------------- SpecConc: two callers
\* A render call step by step, as two threads of one interpreter run it: an
\* activation of _generate_block reads and writes self.indent_level in
\* separate steps, and another thread may run between any two of them.

\* An activation of _generate_block: the block, the node whose handler called
\* it, the next step, the value loaded for += and -=, and its locals.
Frame(block, owner) ==
    [block |-> block, owner |-> owner, pc |-> "inc_load", tmp |-> 0,
     indent |-> <<>>, lines |-> <<>>, idx |-> 1, result |-> <<>>]

\* The frame of visit(n) for a Function (its body) or a Block statement.
FrameOf(n) == IF n.kind = "Function" THEN Frame(n.body, n) ELSE Frame(n, n)

\* What the handler that called _generate_block returns: visit(Block) the
\* block's text, visit(Function) the header over it.
Returned(owner, body) ==
    IF owner.kind = "Function"
    THEN FormatFunction(owner.name, Visit(owner.prototype.args, 0).text,
                        IF owner.prototype.return_type # None
                        THEN S_arrow \o Visit(owner.prototype.return_type, 0).text
                        ELSE <<>>,
                        body)
    ELSE body

Top(t) == stack[t][Len(stack[t])]

SetTop(t, fr) == stack' = [stack EXCEPT ![t] = [@ EXCEPT ![Len(@)] = fr]]

At(t, pc) == stack[t] # <<>> /\ Top(t).pc = pc

\* Two threads have a tree each, the first to render on backend 1, the second
\* on the same instance or on its own.
InitConc ==
    /\ indent_level = [b \in Backends |-> 0]
    /\ node = None
    /\ outcome = NotRun
    /\ pre_level = 0
    /\ self \in {s \in [Threads -> Backends] : s[1] = 1}
    /\ tree \in {x \in [Threads -> ConcTrees] : x[2] \in ConcFlatTrees}
    /\ stack = [t \in Threads |-> <<>>]
    /\ ret = [t \in Threads |-> NotReturned]

\* transpiler.visit(root): the handler of the root calls _generate_block.
Start(t) ==
    /\ stack[t] = <<>>
    /\ ~ret[t].done
    /\ stack' = [stack EXCEPT ![t] = <<FrameOf(tree[t])>>]
    /\ UNCHANGED <<indent_level, seq_vars, self, tree, ret>>

\* self.indent_level += 1: the load.
IncLoad(t) ==
    /\ At(t, "inc_load")
    /\ SetTop(t, [Top(t) EXCEPT !.tmp = Level(self[t]), !.pc = "inc_store"])
    /\ UNCHANGED <<indent_level, seq_vars, self, tree, ret>>

\* self.indent_level += 1: the store.
IncStore(t) ==
    /\ At(t, "inc_store")
    /\ SetLevel(self[t], Top(t).tmp + 1)
    /\ SetTop(t, [Top(t) EXCEPT !.pc = "indent"])
    /\ UNCHANGED <<seq_vars, self, tree, ret>>

\* indent = self.indent_str * self.indent_level
ReadIndent(t) ==
    /\ At(t, "indent")
    /\ SetTop(t, [Top(t) EXCEPT !.indent = Repeat(indent_str, Level(self[t])),
                                !.pc = "stmts"])
    /\ UNCHANGED <<indent_level, seq_vars, self, tree, ret>>

\* indent + self.visit(node) for a statement that has no block of its own.
VisitStmt(t) ==
    /\ At(t, "stmts")
    /\ Top(t).idx <= Len(Top(t).block.nodes)
    /\ LET stmt == Top(t).block.nodes[Top(t).idx]
       IN  /\ stmt.kind \notin {"Function", "Block"}
           /\ SetTop(t, [Top(t) EXCEPT
                            !.lines = Append(@, Top(t).indent
                                                    \o Visit(stmt, Level(self[t])).text),
                            !.idx = @ + 1])
    /\ UNCHANGED <<indent_level, seq_vars, self, tree, ret>>

\* self.visit(node) for a Function or Block statement: into its _generate_block.
CallBlock(t) ==
    /\ At(t, "stmts")
    /\ Top(t).idx <= Len(Top(t).block.nodes)
    /\ LET stmt == Top(t).block.nodes[Top(t).idx]
       IN  /\ stmt.kind \in {"Function", "Block"}
           /\ stack' = [stack EXCEPT ![t] = Append(@, FrameOf(stmt))]
    /\ UNCHANGED <<indent_level, seq_vars, self, tree, ret>>

\* result = "\n".join(lines) if lines else self.indent_str * self.indent_level + "pass"
Result(t) ==
    /\ At(t, "stmts")
    /\ Top(t).idx > Len(Top(t).block.nodes)
    /\ SetTop(t, [Top(t) EXCEPT !.result = BlockResult(Top(t).lines, Level(self[t])),
                                !.pc = "dec_load"])
    /\ UNCHANGED <<indent_level, seq_vars, self, tree, ret>>

\* self.indent_level -= 1: the load.
DecLoad(t) ==
    /\ At(t, "dec_load")
    /\ SetTop(t, [Top(t) EXCEPT !.tmp = Level(self[t]), !.pc = "dec_store"])
    /\ UNCHANGED <<indent_level, seq_vars, self, tree, ret>>

\* self.indent_level -= 1: the store; then return result, to the statement
\* loop of the caller or out of the render call.
DecStore(t) ==
    /\ At(t, "dec_store")
    /\ SetLevel(self[t], Unindent(Top(t).tmp))
    /\ LET text == Returned(Top(t).owner, Top(t).result)
           below == SubSeq(stack[t], 1, Len(stack[t]) - 1)
       IN  IF below = <<>>
           THEN /\ ret' = [ret EXCEPT ![t] = [done |-> TRUE, text |-> text]]
                /\ stack' = [stack EXCEPT ![t] = <<>>]
           ELSE /\ stack' = [stack EXCEPT ![t] =
                       [below EXCEPT ![Len(below)] =
                           [@ EXCEPT !.lines = Append(@, below[Len(below)].indent \o text),
                                     !.idx = @ + 1]]]
                /\ UNCHANGED ret
    /\ UNCHANGED <<seq_vars, self, tree>>

NextConc ==
    \E t \in Threads :
        \/ Start(t)
        \/ IncLoad(t)
        \/ IncStore(t)
        \/ ReadIndent(t)
        \/ VisitStmt(t)
        \/ CallBlock(t)
        \/ Result(t)
        \/ DecLoad(t)
        \/ DecStore(t)

SpecConc == InitConc /\ [][NextConc]_vars

\* ----------------------------------------------------------------- claims

\* C1: when rendering a child statement of a Block raises an error, the
\* backend's indent_level after the failed render call equals its value before
\* the call.
C1_DepthRestoredAfterFailure ==
    (Failed /\ outcome.log # <<>>) => Level(1) = pre_level

\* C2 as stated: a tree that contains, at any position, a node of a class with
\* no registered handler renders to the unimplemented-construct error for such
\* a node, and to no text.
C2_AnyUnregisteredNodeFails ==
    (Rendered /\ Unregistered(AllNodes(node)) # {}) =>
        /\ Failed
        /\ outcome.err \in Unregistered(AllNodes(node))
        /\ outcome.text = <<>>

\* C2 amended: a tree that holds a node of a class with no registered handler
\* at a position the handlers visit (every child but a Function's
\* FunctionPrototype, which the Function handler reads through) renders to the
\* error for such a node, and to no text.
C2_VisitedUnregisteredNodeFails ==
    (Rendered /\ Unregistered(DispatchedNodes(node)) # {}) =>
        /\ Failed
        /\ outcome.err \in Unregistered(DispatchedNodes(node))
        /\ outcome.text = <<>>

\* C2 witness: an unregistered statement two Blocks deep fails the render after
\* a sibling statement was rendered.
C2_Witness ==
    /\ Failed
    /\ node.kind = "Function"
    /\ Len(outcome.log) >= 2
    /\ outcome.err = WhileStmt
    /\ \E i \in 1..Len(node.body.nodes) : node.body.nodes[i].kind = "FunctionReturn"

\* C3: whatever was rendered on the backend before, rendering a tree gives
\* what rendering it on a freshly constructed backend gives.
C3_RenderAsOnFreshBackend ==
    Rendered =>
        /\ Succeeded = Visit(node, 0).ok
        /\ outcome.text = Visit(node, 0).text

\* C4: on a backend at depth 0, every line of a rendered Function with one or
\* more body statements is at its own nesting depth: the header at d, each
\* statement of the body at d+1, the lines of a Function or Block nested in
\* the body likewise, each prefixed by the indentation unit that many times.
C4_EveryLineAtItsDepth ==
    (Succeeded /\ pre_level = 0 /\ node.kind = "Function" /\ node.body.nodes # <<>>) =>
        LineDepths(outcome.text) = ExpectedDepths(node, 0)

ExpectedBindings(base, N) ==
    IF N = 1 THEN base ELSE Join(S_comma, [i \in 1..N |-> base \o Str(i)])

ExpectedTuple(lookups) ==
    IF Len(lookups) > 1 THEN <<"(">> \o Join(S_comma, lookups) \o <<")">> ELSE lookups[1]

\* C6: an ImportFromExpr (ImportExpr) of N >= 1 names renders as one
\* assignment: on the left N bindings, bare name (module) when N = 1 and
\* name1..nameN (module1..moduleN) when N > 1; on the right N lookup calls in
\* order, in parentheses if and only if N > 1.
C6_SingularPluralImports ==
    (Succeeded /\ node.kind \in {"ImportFromExpr", "ImportExpr"} /\ Len(node.names) >= 1) =>
        LET N == Len(node.names)
            lookups ==
                [i \in 1..N |->
                    IF node.kind = "ImportFromExpr"
                    THEN LookupFrom(ModuleStr(node), FormatAliasExpr(node.names[i]))
                    ELSE LookupModule(FormatAliasExpr(node.names[i]))]
            base == IF node.kind = "ImportFromExpr" THEN S_name ELSE S_module
        IN  outcome.text = ExpectedBindings(base, N) \o S_assign \o ExpectedTuple(lookups)

\* C6 witness: a from-import expression of two names was rendered.
C6_Witness ==
    Succeeded /\ node.kind = "ImportFromExpr" /\ Len(node.names) = 2

\* C8: a FunctionReturn with a value renders as return VALUE, one without as
\* exactly the token return.
C8_BareReturn ==
    (Succeeded /\ node.kind = "FunctionReturn") =>
        outcome.text =
            IF node.value = None THEN S_return
            ELSE S_return \o <<" ">> \o Visit(node.value, pre_level).text

\* C10: the i-th lookup call of a rendered ImportFromExpr has the name field of
\* the i-th AliasExpr in its fromlist and as its attribute, rename or not.
C10_LookupSelectsName ==
    (Succeeded /\ node.kind = "ImportFromExpr") =>
        outcome.text =
            ExpectedBindings(S_name, Len(node.names)) \o S_assign
                \o ExpectedTuple([i \in 1..Len(node.names) |->
                                    LookupFrom(ModuleStr(node), node.names[i].name)])

\* ------------------------------------------------------- SpecExpr claims
\* The end of the token that starts at i: the first blank or parenthesis.
RECURSIVE TokenEnd(_, _)
TokenEnd(s, i) ==
    IF i > Len(s) \/ s[i] \in {" ", "(", ")"} THEN i ELSE TokenEnd(s, i + 1)

NoParse == [ok |-> FALSE, tree |-> None, next |-> 0]

RECURSIVE ReadExpr(_, _)
\* Reads one expression of the text from position i:  NAME  or  (E OP E).
ReadExpr(s, i) ==
    IF i > Len(s) THEN NoParse
    ELSE IF s[i] = "("
    THEN LET l == ReadExpr(s, i + 1)
         IN  IF ~l.ok \/ l.next > Len(s) \/ s[l.next] # " " THEN NoParse
             ELSE LET e == TokenEnd(s, l.next + 1)
                      r == ReadExpr(s, e + 1)
                  IN  IF e = l.next + 1 \/ e > Len(s) \/ s[e] # " " THEN NoParse
                      ELSE IF ~r.ok \/ r.next > Len(s) \/ s[r.next] # ")" THEN NoParse
                      ELSE [ok |-> TRUE,
                            tree |-> BinaryOp(SubSeq(s, l.next + 1, e - 1), l.tree, r.tree),
                            next |-> r.next + 1]
    ELSE LET e == TokenEnd(s, i)
         IN  IF e = i THEN NoParse
             ELSE [ok |-> TRUE, tree |-> Variable(SubSeq(s, i, e - 1)), next |-> e]

RECURSIVE Count(_, _)
Count(ch, s) ==
    IF s = <<>> THEN 0 ELSE (IF Head(s) = ch THEN 1 ELSE 0) + Count(ch, Tail(s))

RECURSIVE NumBinaryOps(_)
NumBinaryOps(e) ==
    IF e.kind = "BinaryOp" THEN 1 + NumBinaryOps(e.lhs) + NumBinaryOps(e.rhs) ELSE 0

APlusBTimesC ==
    BinaryOp(Plus, Variable(Na), BinaryOp(Times, Variable(Nb), Variable(Nc)))

\* C7: a tree of BinaryOp nodes over variables renders with one pair of
\* parentheses per BinaryOp node, as (lhs OP rhs); + over a and (* over b, c)
\* is (a + (b * c)); and the tree is read back from its text, so no two
\* different trees have the same text.
C7_FullyParenthesized ==
    (Succeeded /\ node \in Exprs) =>
        /\ Count("(", outcome.text) = NumBinaryOps(node)
        /\ Count(")", outcome.text) = NumBinaryOps(node)
        /\ ReadExpr(outcome.text, 1) =
              [ok |-> TRUE, tree |-> node, next |-> Len(outcome.text) + 1]
        /\ node = APlusBTimesC =>
              outcome.text = <<"(", "a", " ", "+", " ", "(", "b", " ", "*", " ", "c",
                               ")", ")">>
        /\ node.kind = "BinaryOp" =>
              outcome.text =
                  <<"(">> \o Visit(node.lhs, 0).text \o <<" ">> \o node.op_code \o <<" ">>
                      \o Visit(node.rhs, 0).text \o <<")">>

\* C7 witness: a + (b * c) was rendered.
C7_Witness == Succeeded /\ node = APlusBTimesC

\* ------------------------------------------------------- SpecConc claims
SameBackend == self[1] = self[2]

AllReturned == \A t \in Threads : ret[t].done

\* C9: two interleaved render calls on separate backend instances each return
\* the text they return when run alone, and leave each backend at depth 0; on
\* one shared instance some interleaving does not (C9_Witness reaches it).
C9_SeparateBackendsRenderAlone ==
    ~SameBackend =>
        /\ \A t \in Threads : ret[t].done => ret[t].text = Visit(tree[t], 0).text
        /\ AllReturned => \A t \in Threads : Level(self[t]) = 0

\* C9 witness: both calls ran on one backend and one of them returned a text
\* indented otherwise than when run alone.
C9_Witness ==
    /\ SameBackend
    /\ AllReturned
    /\ \E t \in Threads :
          /\ ret[t].text # Visit(tree[t], 0).text
          /\ LineDepths(ret[t].text) # LineDepths(Visit(tree[t], 0).text)

====
